---- MODULE Spec2Model ----
(***************************************************************************)
(* Model of src/src/id_working_days/calendar.py: working_date and its two  *)
(* derivatives total_working_day and working_day.                          *)
(*                                                                         *)
(* A date is the number of days since 2024-01-01, which was a Monday, so   *)
(* the pandas weekday (Monday = 0 .. Sunday = 6) of day n is n % 7.        *)
(* A holiday name is the sequence of its words.                            *)
(*                                                                         *)
(* start .. new_year are the arguments of the call and natal the name the  *)
(* holiday provider gives to 25 December; pc is the position in            *)
(* working_date ("start", "loop", "returned", "raised") or, once the       *)
(* caller has finished, the name of the function that was called.          *)
(* total_working_day and working_day pass their arguments on unchanged, so *)
(* the steps of working_date are shared by the three entry points.         *)
(***************************************************************************)
EXTENDS Integers, Sequences, FiniteSets, TLC

VARIABLES start, end, type, ied_fitr, christmas, new_year,
          natal, pc, lookups, years, holiday, seasonal_event, idx,
          additional_holiday, wd, total, monthly

vars == <<start, end, type, ied_fitr, christmas, new_year,
          natal, pc, lookups, years, holiday, seasonal_event, idx,
          additional_holiday, wd, total, monthly>>

\* An optional integer argument: None, or Some(n) for the integer n
None == <<>>
Some(n) == <<n>>
Val(o) == o[1]

--------------------------------------------------------------------------
\* Bounds of the model

\* number of calendar years the input dates are drawn from (2024, 2025, ..)
NumYears == 2
\* largest extension count tried
MaxExt == 3

FirstYear == 2024
LastYear == FirstYear + NumYears - 1

--------------------------------------------------------------------------
\* The proleptic Gregorian calendar

IsLeap(y) == (y % 4 = 0 /\ y % 100 # 0) \/ y % 400 = 0

DaysInMonth(y, m) ==
    IF m = 2 THEN (IF IsLeap(y) THEN 29 ELSE 28)
    ELSE IF m \in {4, 6, 9, 11} THEN 30 ELSE 31

DaysInYear(y) == IF IsLeap(y) THEN 366 ELSE 365

RECURSIVE DaysBeforeYear(_)
DaysBeforeYear(y) ==
    IF y <= FirstYear THEN 0 ELSE DaysBeforeYear(y - 1) + DaysInYear(y - 1)

RECURSIVE DaysBeforeMonth(_, _)
DaysBeforeMonth(y, m) ==
    IF m <= 1 THEN 0 ELSE DaysBeforeMonth(y, m - 1) + DaysInMonth(y, m - 1)

\* the day number of the date y-m-d
Ord(y, m, d) == DaysBeforeYear(y) + DaysBeforeMonth(y, m) + d - 1

\* one year past the last input year, so that extension days can spill over
CalYears == FirstYear .. LastYear + 1
Days == 0 .. DaysBeforeYear(LastYear + 2) - 1

YearTable ==
    [n \in Days |->
        CHOOSE y \in CalYears : DaysBeforeYear(y) <= n /\ n < DaysBeforeYear(y + 1)]
MonthTable ==
    [n \in Days |->
        CHOOSE m \in 1 .. 12 :
            /\ Ord(YearTable[n], m, 1) <= n
            /\ n < Ord(YearTable[n], m, 1) + DaysInMonth(YearTable[n], m)]

YearOf(n) == YearTable[n]
MonthOf(n) == MonthTable[n]
Weekday(n) == n % 7

--------------------------------------------------------------------------
\* Holiday names.  A name is the sequence of its tokens (words, and the
\* "; " with which the provider joins the names of holidays that share a
\* date), so that a substring test is a test for a contiguous run of tokens.

IdulFitri2Est ==
    <<"Hari", "kedua", "dari", "Hari", "Raya", "Idul", "Fitri", "(perkiraan)">>
IdulFitri2 == <<"Hari", "kedua", "dari", "Hari", "Raya", "Idul", "Fitri">>
IdulFitri1 == <<"Hari", "Raya", "Idul", "Fitri">>
IdulFitri1Est == <<"Hari", "Raya", "Idul", "Fitri", "(perkiraan)">>
HariRayaNatal == <<"Hari", "Raya", "Natal">>
TahunBaruMasehi == <<"Tahun", "Baru", "Masehi">>
TahunBaruImlek == <<"Tahun", "Baru", "Imlek">>
IsraMikraj == <<"Isra", "Mikraj", "Nabi", "Muhammad">>
IsraMikrajEst == <<"Isra", "Mikraj", "Nabi", "Muhammad", "(perkiraan)">>
\* Christmas sharing its date with a second holiday
NatalJoined ==
    <<"Hari", "Raya", "Natal", ";", "Maulid", "Nabi", "Muhammad", "(perkiraan)">>

\* the names the provider may give to 25 December
NatalNames == {HariRayaNatal, NatalJoined}

\* str.lower on one token
LowerWord(w) ==
    CASE w = "Hari" -> "hari"     [] w = "Raya" -> "raya"
      [] w = "Natal" -> "natal"   [] w = "Tahun" -> "tahun"
      [] w = "Baru" -> "baru"     [] w = "Masehi" -> "masehi"
      [] w = "Imlek" -> "imlek"   [] w = "Idul" -> "idul"
      [] w = "Fitri" -> "fitri"   [] w = "Isra" -> "isra"
      [] w = "Mikraj" -> "mikraj" [] w = "Nabi" -> "nabi"
      [] w = "Muhammad" -> "muhammad" [] w = "Maulid" -> "maulid"
      [] OTHER -> w

Lower(name) == [i \in 1 .. Len(name) |-> LowerWord(name[i])]

\* Series.str.contains(pat, case=False): pat occurs somewhere in name
ContainsIgnoreCase(name, pat) ==
    \E i \in 1 .. Len(name) - Len(pat) + 1 :
        SubSeq(Lower(name), i, i + Len(pat) - 1) = Lower(pat)

--------------------------------------------------------------------------
\* The holiday provider: holidays.country_holidays("ID", years=...)

Rec(d, n) == [date |-> d, name |-> n]

\* holidays whose date follows a lunar calendar, as the provider lists them
MovableHolidays(y) ==
    CASE y = 2024 ->
            { Rec(Ord(2024, 2, 8), IsraMikraj),
              Rec(Ord(2024, 2, 10), TahunBaruImlek),
              Rec(Ord(2024, 4, 10), IdulFitri1),
              Rec(Ord(2024, 4, 11), IdulFitri2) }
      [] y = 2025 ->
            { Rec(Ord(2025, 1, 27), IsraMikrajEst),
              Rec(Ord(2025, 1, 29), TahunBaruImlek),
              Rec(Ord(2025, 3, 30), IdulFitri1Est),
              Rec(Ord(2025, 3, 31), IdulFitri2Est) }
      [] y = 2026 ->
            { Rec(Ord(2026, 2, 17), TahunBaruImlek),
              Rec(Ord(2026, 3, 20), IdulFitri1Est),
              Rec(Ord(2026, 3, 21), IdulFitri2Est) }
      [] OTHER -> {}

HolidaysOfYear(y, natalName) ==
    { Rec(Ord(y, 1, 1), TahunBaruMasehi), Rec(Ord(y, 12, 25), natalName) }
        \cup MovableHolidays(y)

\* insertion of a record into a list sorted by date, after the records
\* of the same date
RECURSIVE InsertByDate(_, _)
InsertByDate(r, s) ==
    IF s = <<>> THEN <<r>>
    ELSE IF r.date < Head(s).date THEN <<r>> \o s
    ELSE <<Head(s)>> \o InsertByDate(r, Tail(s))

RECURSIVE SortByDate(_)
SortByDate(s) ==
    IF s = <<>> THEN <<>>
    ELSE InsertByDate(s[Len(s)], SortByDate(SubSeq(s, 1, Len(s) - 1)))

RECURSIVE SetToSortedSeq(_)
SetToSortedSeq(S) ==
    IF S = {} THEN <<>>
    ELSE LET r == CHOOSE x \in S : \A z \in S : x.date <= z.date
         IN  <<r>> \o SetToSortedSeq(S \ {r})

\* sorted(country_holidays("ID", years=years).items()): one record per date
CountryHolidays(ys, natalName) ==
    SetToSortedSeq(UNION { HolidaysOfYear(y, natalName) : y \in ys })

\* variant: the two ends are taken in either order
YearEndYearsEitherOrder(s, e) ==
    { y \in CalYears :
        /\ (IF s <= e THEN s ELSE e) <= Ord(y, 12, 31)
        /\ Ord(y, 12, 31) <= (IF s <= e THEN e ELSE s) }

\* pd.date_range(start, end, freq="YE").year: the years whose 31 December
\* lies in [start, end]
YearEndYears(s, e) ==
    { y \in CalYears : s <= Ord(y, 12, 31) /\ Ord(y, 12, 31) <= e }

--------------------------------------------------------------------------
\* working_date: selection of the seasonal holidays and their extension

\* holiday.loc[...]: the rows kept as seasonal events, in order
IsSeasonal(r) ==
    \/ r.name = IdulFitri2Est
    \/ ContainsIgnoreCase(r.name, HariRayaNatal)
    \/ ContainsIgnoreCase(r.name, TahunBaruMasehi)

SeasonalEvent(h) == SelectSeq(h, IsSeasonal)

\* the if / elif / else of the loop: the periods argument used for a row
ExtensionPeriods(row, ied, chr, ny) ==
    IF row.name = IdulFitri2Est THEN ied
    ELSE IF row.name = HariRayaNatal THEN chr
    ELSE ny

\* pd.date_range(start=d, periods=n, freq='D') for n >= 0
DailyRange(d, n) == [i \in 1 .. n |-> d + i - 1]

\* the records appended to additional_holiday for one row
ExtensionRecords(row, n) ==
    [i \in 1 .. n |->
        [date |-> DailyRange(row.date, n)[i], name |-> <<"extend">> \o row.name]]

\* pd.concat([holiday, additional_holiday]).sort_values('date')
ConcatSorted(h, a) == SortByDate(h \o a)

--------------------------------------------------------------------------
\* working_date: the custom business day range

Monday == 0
Friday == 4
Saturday == 5
Sunday == 6

\* variant: only an absent type selects the six-day week
WeekmaskNoneOnly(t) == IF t = None THEN Monday .. Saturday ELSE Monday .. Friday

\* workday_type: the weekmask
Weekmask(t) == IF t = None \/ t = Some(0) THEN Monday .. Saturday ELSE Monday .. Friday

HolidayDates(h) == { h[i].date : i \in 1 .. Len(h) }

\* CustomBusinessDay.is_on_offset
IsOnOffset(d, mask, hols) == Weekday(d) \in mask /\ d \notin hols

RECURSIVE RollForward(_, _, _)
RollForward(d, mask, hols) ==
    IF IsOnOffset(d, mask, hols) THEN d ELSE RollForward(d + 1, mask, hols)

RECURSIVE RollBack(_, _, _)
RollBack(d, mask, hols) ==
    IF IsOnOffset(d, mask, hols) THEN d ELSE RollBack(d - 1, mask, hols)

\* the dates on offset from lo to hi in ascending order: the dates the
\* generator of date_range visits by adding one business day at a time
\* (split in halves so that the evaluation depth stays logarithmic)
RECURSIVE DaysOnOffset(_, _, _, _)
DaysOnOffset(lo, hi, mask, hols) ==
    IF lo > hi THEN <<>>
    ELSE IF lo = hi THEN (IF IsOnOffset(lo, mask, hols) THEN <<lo>> ELSE <<>>)
    ELSE LET mid == (lo + hi) \div 2
         IN  DaysOnOffset(lo, mid, mask, hols) \o DaysOnOffset(mid + 1, hi, mask, hols)

\* variant: the range stops before its end date
BusinessDayRangeOpenEnd(s, e, mask, hols) ==
    LET first == RollForward(s, mask, hols)
        last  == RollBack(e - 1, mask, hols)
    IN  IF last < first THEN <<>>
        ELSE DaysOnOffset(first, last, mask, hols)

\* pd.date_range(start=s, end=e, freq=cbd): start is rolled forward and end
\* rolled back to a business day; nothing is generated when they cross
BusinessDayRange(s, e, mask, hols) ==
    LET first == RollForward(s, mask, hols)
        last  == RollBack(e, mask, hols)
    IN  IF last < first THEN <<>>
        ELSE DaysOnOffset(first, last, mask, hols)

--------------------------------------------------------------------------
\* total_working_day and working_day

\* the frame working_date returns has the single column 'Working Date'
WdColumns == 1

\* variant: the size of a frame that also holds the 'Year-Month' column
FrameSizeTwoColumns(frame) == Len(frame) * (WdColumns + 1)

\* DataFrame.size: rows times columns
FrameSize(frame) == Len(frame) * WdColumns

\* variant: the month of the year alone
ToPeriodMonthOnly(d) == MonthOf(d) - 1

\* Series.dt.to_period('M'): the ordinal of the month, counted from 1970-01
ToPeriodM(d) == (YearOf(d) - 1970) * 12 + MonthOf(d) - 1

RECURSIVE SortedKeys(_)
SortedKeys(K) ==
    IF K = {} THEN <<>>
    ELSE LET k == CHOOSE x \in K : \A z \in K : x <= z
         IN  <<k>> \o SortedKeys(K \ {k})

\* wd.groupby('Year-Month').size().reset_index(name='Working Days')
GroupBySize(frame) ==
    LET period == [i \in 1 .. Len(frame) |-> ToPeriodM(frame[i])]
        keys   == SortedKeys({ period[i] : i \in 1 .. Len(frame) })
    IN  [j \in 1 .. Len(keys) |->
            [ym   |-> keys[j],
             days |-> Cardinality({ i \in 1 .. Len(frame) : period[i] = keys[j] })]]

--------------------------------------------------------------------------
\* Inputs

ProbeYears == {FirstYear, LastYear}
StartDates == { Ord(y, 1, 1) : y \in ProbeYears } \cup { Ord(FirstYear, 6, 1) }
EndDates ==
    { Ord(y, 1, 31) : y \in ProbeYears } \cup { Ord(y, 6, 1) : y \in ProbeYears }
        \cup { Ord(y, 12, 31) : y \in ProbeYears }
TypeValues == {None, Some(0), Some(1)}
ExtValues == {None} \cup { Some(n) : n \in {-1, 0, MaxExt} }

Init ==
    /\ start \in StartDates
    /\ end \in EndDates
    /\ type \in TypeValues
    /\ ied_fitr \in ExtValues
    /\ christmas \in ExtValues
    /\ new_year \in ExtValues
    /\ natal \in NatalNames
    /\ pc = "start"
    /\ lookups = 0
    /\ years = {}
    /\ holiday = <<>>
    /\ seasonal_event = <<>>
    /\ idx = 0
    /\ additional_holiday = <<>>
    /\ wd = <<>>
    /\ total = 0
    /\ monthly = <<>>

inputs == <<start, end, type, ied_fitr, christmas, new_year, natal>>

\* lines 41-53: the provider is asked for the years of the year ends in
\* [start, end]; the seasonal rows are selected
LookupHolidays ==
    /\ pc = "start"
    /\ lookups' = lookups + 1
    /\ years' = YearEndYears(start, end)
    /\ holiday' = CountryHolidays(years', natal)
    /\ seasonal_event' = SeasonalEvent(holiday')
    /\ additional_holiday' = <<>>
    /\ idx' = 1
    /\ pc' = "loop"
    /\ UNCHANGED <<inputs, wd, total, monthly>>

\* lines 55-74: one iteration of the loop over seasonal_event
ExtendRow ==
    /\ pc = "loop"
    /\ idx <= Len(seasonal_event)
    /\ LET row == seasonal_event[idx]
           n   == ExtensionPeriods(row, ied_fitr, christmas, new_year)
       IN  \/ /\ n = None                      \* continue
              /\ idx' = idx + 1
              /\ UNCHANGED <<pc, additional_holiday>>
           \/ /\ n # None
              /\ Val(n) >= 0
              /\ additional_holiday' =
                    additional_holiday \o ExtensionRecords(row, Val(n))
              /\ idx' = idx + 1
              /\ UNCHANGED pc
           \/ /\ n # None                      \* pd.date_range rejects a negative
                                                \* periods with a ValueError
              /\ Val(n) < 0
              /\ pc' = "raised"
              /\ UNCHANGED <<idx, additional_holiday>>
    /\ UNCHANGED <<inputs, lookups, years, holiday, seasonal_event, wd, total,
                   monthly>>

\* lines 76-90: the holiday frame, the calendar and the returned frame
BuildCalendar ==
    /\ pc = "loop"
    /\ idx > Len(seasonal_event)
    /\ holiday' = ConcatSorted(holiday, additional_holiday)
    /\ wd' = BusinessDayRange(start, end, Weekmask(type), HolidayDates(holiday'))
    /\ pc' = "returned"
    /\ UNCHANGED <<inputs, lookups, years, seasonal_event, idx, additional_holiday,
                   total, monthly>>

\* the call was working_date itself: the frame goes to the user
ReturnWorkingDate ==
    /\ pc = "returned"
    /\ pc' = "working_date"
    /\ UNCHANGED <<inputs, lookups, years, holiday, seasonal_event, idx,
                   additional_holiday, wd, total, monthly>>

\* lines 104-111: the call came from total_working_day
TotalWorkingDay ==
    /\ pc = "returned"
    /\ total' = FrameSize(wd)
    /\ pc' = "total_working_day"
    /\ UNCHANGED <<inputs, lookups, years, holiday, seasonal_event, idx,
                   additional_holiday, wd, monthly>>

\* lines 125-136: the call came from working_day
WorkingDay ==
    /\ pc = "returned"
    /\ monthly' = GroupBySize(wd)
    /\ pc' = "working_day"
    /\ UNCHANGED <<inputs, lookups, years, holiday, seasonal_event, idx,
                   additional_holiday, wd, total>>

Next ==
    \/ LookupHolidays
    \/ ExtendRow
    \/ BuildCalendar
    \/ ReturnWorkingDate
    \/ TotalWorkingDay
    \/ WorkingDay

Spec == Init /\ [][Next]_vars

--------------------------------------------------------------------------
\* Properties

\* the candidate weekdays of the work-week pattern: type 1 is the five-day
\* week, an absent type or type 0 the six-day week
CandidateDays(t) ==
    IF t = Some(1) THEN {Monday, 1, 2, 3, Friday} ELSE {Monday, 1, 2, 3, Friday, Saturday}

Returned == pc \in {"returned", "working_date", "total_working_day", "working_day"}

WdDates == { wd[i] : i \in 1 .. Len(wd) }

IsHolidayDate(d) == \E i \in 1 .. Len(holiday) : holiday[i].date = d

\* C1: the frame working_date returns holds exactly the dates of
\* [start, end] that fall on a candidate weekday of the pattern and are the
\* date of no record of the holiday frame; so none is a Sunday, and none a
\* Saturday under the five-day week.
C1_ExactWorkingDates ==
    pc = "returned" =>
        /\ WdDates = { d \in start .. end :
                         Weekday(d) \in CandidateDays(type) /\ ~IsHolidayDate(d) }
        /\ \A i \in 1 .. Len(wd) :
              /\ Weekday(wd[i]) # Sunday
              /\ type = Some(1) => Weekday(wd[i]) # Saturday

\* a returned frame of a five-day week out of which a holiday that falls
\* on a weekday, a Saturday and a Sunday of the range were left
C1_Witness ==
    /\ pc = "returned"
    /\ type = Some(1)
    /\ wd # <<>>
    /\ \E d \in start .. end : IsHolidayDate(d) /\ Weekday(d) \in Monday .. Friday
    /\ \E d \in start .. end : Weekday(d) = Saturday
    /\ \E d \in start .. end : Weekday(d) = Sunday

\* C6: total_working_day returns the number of dates of the frame that
\* working_date returns for the same arguments.
C6_CountIsLength ==
    pc = "total_working_day" => total = Len(wd)

C6_Witness ==
    /\ pc = "total_working_day"
    /\ total > 0
    /\ \E d \in start .. end : IsHolidayDate(d)

\* the (year, month) of a date, and of a period ordinal
YearMonth(d) == <<YearOf(d), MonthOf(d)>>
PeriodYearMonth(p) == <<1970 + (p \div 12), (p % 12) + 1>>

RECURSIVE SumDays(_)
SumDays(m) == IF m = <<>> THEN 0 ELSE Head(m).days + SumDays(Tail(m))

\* C7: working_day returns one record for each (year, month) that holds a
\* date of the frame of working_date, in chronological order, with the
\* number of working dates of that month; no count is zero and the counts
\* add up to what total_working_day returns.
C7_MonthlyBreakdown ==
    pc = "working_day" =>
        LET months == { YearMonth(wd[i]) : i \in 1 .. Len(wd) }
        IN  /\ Len(monthly) = Cardinality(months)
            /\ \A j \in 1 .. Len(monthly) :
                  /\ PeriodYearMonth(monthly[j].ym) \in months
                  /\ monthly[j].days =
                        Cardinality({ i \in 1 .. Len(wd) :
                                        YearMonth(wd[i]) = PeriodYearMonth(monthly[j].ym) })
                  /\ monthly[j].days > 0
            /\ \A j \in 1 .. Len(monthly) - 1 : monthly[j].ym < monthly[j + 1].ym
            /\ SumDays(monthly) = FrameSize(wd)

\* a breakdown over more than a year whose range ends in a month that has
\* no working date in the range, and so no record
C7_Witness ==
    /\ pc = "working_day"
    /\ start <= end
    /\ Len(monthly) > 12
    /\ \A j \in 1 .. Len(monthly) : PeriodYearMonth(monthly[j].ym) # YearMonth(end)

AnyNegative ==
    \E x \in {ied_fitr, christmas, new_year} : x # None /\ Val(x) < 0

\* C8: with start after end, working_date raises nothing, asks the provider
\* for no year and returns an empty frame, and total_working_day returns 0.
C8_EmptyWhenReversed ==
    start > end =>
        /\ pc # "raised"
        /\ years = {}
        /\ holiday = <<>>
        /\ Returned => wd = <<>>
        /\ pc = "total_working_day" => total = 0

C8_Witness ==
    /\ start > end
    /\ pc = "total_working_day"
    /\ total = 0
    /\ AnyNegative
    /\ YearOf(start) # YearOf(end)

\* C9: for start <= end the returned dates are strictly increasing and lie
\* in [start, end]; start and end are returned when they fall on a
\* candidate weekday and are no holiday.
C9_IncreasingWithinRange ==
    (pc = "returned" /\ start <= end) =>
        /\ \A i \in 1 .. Len(wd) - 1 : wd[i] < wd[i + 1]
        /\ \A i \in 1 .. Len(wd) : start <= wd[i] /\ wd[i] <= end
        /\ (Weekday(start) \in CandidateDays(type) /\ ~IsHolidayDate(start))
              => (wd # <<>> /\ wd[1] = start)
        /\ (Weekday(end) \in CandidateDays(type) /\ ~IsHolidayDate(end))
              => (wd # <<>> /\ wd[Len(wd)] = end)

\* a frame that begins at start and ends at end, built from a holiday frame
\* in which two records share a date
C9_Witness ==
    /\ pc = "returned"
    /\ start < end
    /\ Len(wd) > 1
    /\ wd[1] = start
    /\ wd[Len(wd)] = end
    /\ \E i, j \in 1 .. Len(holiday) : i < j /\ holiday[i].date = holiday[j].date

--------------------------------------------------------------------------
\* Properties of the holiday frame

\* the years that hold a date of [s, e]
YearsTouched(s, e) == { y \in CalYears : Ord(y, 1, 1) <= e /\ s <= Ord(y, 12, 31) }

\* the records of the provider for the years touched by [start, end]
OfficialHolidays ==
    UNION { HolidaysOfYear(y, natal) : y \in YearsTouched(start, end) }

\* C2: for start <= end the provider is asked for every year that
\* [start, end] touches, so that every official holiday of the range is
\* left out of the returned frame.
C2_EveryTouchedYearQueried ==
    (start <= end /\ pc # "start") =>
        /\ YearsTouched(start, end) \subseteq years
        /\ pc = "returned" =>
              \A h \in OfficialHolidays : h.date \notin WdDates

\* the cluster a seasonal row belongs to: the test that selected it
Cluster(row) ==
    IF row.name = IdulFitri2Est THEN "ied_fitr"
    ELSE IF ContainsIgnoreCase(row.name, HariRayaNatal) THEN "christmas"
    ELSE "new_year"

\* the extension count of a cluster
ClusterCount(c) ==
    CASE c = "ied_fitr" -> ied_fitr
      [] c = "christmas" -> christmas
      [] c = "new_year" -> new_year

\* the extension records generated for a seasonal row: those that carry its
\* name and lie less than a year after it
RecordsOf(row) ==
    { i \in 1 .. Len(additional_holiday) :
        /\ additional_holiday[i].name = <<"extend">> \o row.name
        /\ row.date <= additional_holiday[i].date
        /\ additional_holiday[i].date < row.date + 365 }

\* C3: a seasonal row whose cluster has the extension count N >= 1 gets
\* exactly N extension records, dated h, h+1, .., h+N-1 and named as
\* extensions of it, and none of these dates is returned.
C3_ExtensionOfNDays ==
    pc = "returned" =>
        \A k \in 1 .. Len(seasonal_event) :
            LET row == seasonal_event[k]
                n   == ClusterCount(Cluster(row))
            IN  (n # None /\ Val(n) >= 1) =>
                    /\ Cardinality(RecordsOf(row)) = Val(n)
                    /\ { additional_holiday[i].date : i \in RecordsOf(row) }
                          = row.date .. row.date + Val(n) - 1
                    /\ \A d \in row.date .. row.date + Val(n) - 1 : d \notin WdDates

\* C4: every seasonal row is extended by the count of its own cluster and
\* by no other: once the loop has passed a row, the row has as many
\* extension records as its cluster's count says, none if it is unset.
C4_OwnClusterCount ==
    (pc \in {"loop", "returned"}) =>
        \A k \in 1 .. Len(seasonal_event) :
            k < idx =>
                LET row == seasonal_event[k]
                    n   == ClusterCount(Cluster(row))
                IN  (n = None \/ Val(n) >= 0) =>
                        Cardinality(RecordsOf(row)) = (IF n = None THEN 0 ELSE Val(n))

\* C5: with a negative extension count working_date fails before it asks
\* the provider: no lookup takes place and nothing is returned.
C5_FailsBeforeLookup ==
    AnyNegative => (lookups = 0 /\ ~Returned)

\* the loop over the seasonal rows as a whole, for given counts
RECURSIVE AllExtensions(_, _, _, _)
AllExtensions(rows, ied, chr, ny) ==
    IF rows = <<>> THEN <<>>
    ELSE LET n == ExtensionPeriods(Head(rows), ied, chr, ny)
         IN  (IF n = None THEN <<>> ELSE ExtensionRecords(Head(rows), Val(n)))
                \o AllExtensions(Tail(rows), ied, chr, ny)

\* the frame working_date returns for the inputs with other counts
FrameWith(ied, chr, ny) ==
    LET h == CountryHolidays(YearEndYears(start, end), natal)
        a == AllExtensions(SeasonalEvent(h), ied, chr, ny)
    IN  BusinessDayRange(start, end, Weekmask(type),
                         HolidayDates(ConcatSorted(h, a)))

\* 0 for an unset count and unset for 0
Counterpart(x) == IF x = None THEN Some(0) ELSE None

ZeroOrUnset(x) == x = None \/ x = Some(0)

\* C10: a count of 0 and an unset count are equivalent: a cluster with
\* either has no extension record, its rows stay left out through their
\* base records, and the returned frame is the one the other value gives.
C10_ZeroIsUnset ==
    pc = "returned" =>
        /\ \A k \in 1 .. Len(seasonal_event) :
              ZeroOrUnset(ClusterCount(Cluster(seasonal_event[k]))) =>
                  /\ RecordsOf(seasonal_event[k]) = {}
                  /\ seasonal_event[k].date \notin WdDates
        /\ ZeroOrUnset(ied_fitr) =>
              wd = FrameWith(Counterpart(ied_fitr), christmas, new_year)
        /\ ZeroOrUnset(christmas) =>
              wd = FrameWith(ied_fitr, Counterpart(christmas), new_year)
        /\ ZeroOrUnset(new_year) =>
              wd = FrameWith(ied_fitr, christmas, Counterpart(new_year))

====
